---- MODULE Spec2Model ----
(***************************************************************************)
(* Round-trip compression benchmark (compression_round_tripping).          *)
(*                                                                         *)
(* The file system is a function from paths to file contents; a path is a  *)
(* record [dir, stem, suffix] (pathlib's parent as the sequence of its     *)
(* components, stem, and last suffix without its dot).  Directories are    *)
(* implicit.  The external codecs (the  *)
(* splat-transform command and the spz library) are the environment: each  *)
(* invocation succeeds, fails, or fails leaving a partial output.          *)
(***************************************************************************)
EXTENDS Integers, Sequences, FiniteSets, TLC

VARIABLES
  fs,       \* the file system: path -> content
  pc,       \* position of the running call
  call,     \* the parameters of the running (or last) call
  outcome,  \* "none", "running", "ok" or the error the last call raised
  ext,      \* external codec invocations made by the running (or last) call
  pre,      \* the file system when the running (or last) call started
  procs,    \* concurrent merges: process -> its position and local data
  serialized, \* whether the callers of the concurrent merges exclude each other
  batch     \* the batch driver: its position, arguments and loop state

vars == <<fs, pc, call, outcome, ext, pre, procs, serialized, batch>>

-----------------------------------------------------------------------------
(* Bounds *)

MaxBytes == 2   \* file sizes range over 1..MaxBytes
MaxDur == 2     \* codec wall-times range over 1..MaxDur
MaxRuns == 2    \* batch runs made one after the other over the same output

-----------------------------------------------------------------------------
(* Formats, paths and files *)

\* The parts of the state a specification does not use.
NoCall == pc = 0 /\ call = [op |-> "none"] /\ outcome = "none" /\ ext = 0

NoProcs == procs = <<>> /\ serialized = FALSE

NoBatch == batch = [pc |-> "idle"]

EligibleFileFormats == {"spz", "sog", "ply", "cply"}
EligibleCompressionFormats == {"sog", "spz", "cply"}

Path(d, s, x) == [dir |-> d, stem |-> s, suffix |-> x]

\* The absent optional path argument (compressed_file / decompressed_file).
None == Path(<<>>, "", "")

\* Path.name: the file name without its directory.
name(p) == <<p.stem, p.suffix>>

\* p.with_suffix(".compressed.ply"): the last suffix is replaced, so the new
\* name is "<stem>.compressed.ply", whose stem is "<stem>.compressed" and
\* whose suffix is ".ply".
with_suffix_compressed_ply(p) == Path(p.dir, p.stem \o ".compressed", "ply")

\* p.with_suffix("." + x)
with_suffix(p, x) == Path(p.dir, p.stem, x)

Blob(who, n) == [kind |-> "blob", by |-> who, size |-> n]

\* The element of a one-element set.  Only({e(v) : v \in {d}}) is e(d) with d
\* computed once, however often e uses it.
Only(S) == CHOOSE x \in S : TRUE

exists(f, p) == p \in DOMAIN f

unlink(f, p) == Only({[q \in DOMAIN g \ {p} |-> g[q]] : g \in {f}})

write(f, p, c) ==
  Only({[q \in DOMAIN g \cup {p} |-> IF q = p THEN c ELSE g[q]] : g \in {f}})

\* Path.rename: the target is replaced when it exists (POSIX).
rename(f, a, b) ==
  Only({[q \in (DOMAIN g \ {a}) \cup {b} |-> IF q = b THEN g[a] ELSE g[q]] :
          g \in {f}})

\* The result of one statement group of a call: the file system it leaves,
\* "ok" or the error it raised, and the external invocations made so far.
Step(f, e, x) == [fs |-> f, err |-> e, ext |-> x]

Last(s) == s[Len(s)]

-----------------------------------------------------------------------------
(* Format Codec Adapter *)

\* _file_names_sanity_check.  Every failure is a ValueError in the code; the
\* errors are told apart by their messages:
\*   "Input and output file names must be different."  SameName
\*   "Input/Output file must have extension ..."       FormatMismatch
\*   "Output file already exists: ..."                 DestinationExists
\*   "Input file does not exist: ..."                  SourceMissing
\* The check with the exists-and-not-overwrite test left out: an existing
\* output is deleted whatever the flag says.
file_names_sanity_check_no_exists_test(f, input_file, output_file, input_format, output_format, overwrite) ==
  IF name(input_file) = name(output_file) THEN Step(f, "SameName", 0)
  ELSE IF input_file.suffix # input_format THEN Step(f, "FormatMismatch", 0)
  ELSE IF output_file.suffix # output_format THEN Step(f, "FormatMismatch", 0)
  ELSE LET g == IF exists(f, output_file) THEN unlink(f, output_file) ELSE f
       IN IF ~exists(g, input_file) THEN Step(g, "SourceMissing", 0)
          ELSE Step(g, "ok", 0)

\* The check with the output-extension test left out.
file_names_sanity_check_no_output_suffix_test(f, input_file, output_file, input_format, output_format, overwrite) ==
  IF name(input_file) = name(output_file) THEN Step(f, "SameName", 0)
  ELSE IF input_file.suffix # input_format THEN Step(f, "FormatMismatch", 0)
  ELSE IF exists(f, output_file) /\ ~overwrite
    THEN Step(f, "DestinationExists", 0)
  ELSE LET g == IF exists(f, output_file) /\ overwrite
                  THEN unlink(f, output_file) ELSE f
       IN IF ~exists(g, input_file) THEN Step(g, "SourceMissing", 0)
          ELSE Step(g, "ok", 0)

file_names_sanity_check(f, input_file, output_file, input_format, output_format, overwrite) ==
  IF name(input_file) = name(output_file) THEN Step(f, "SameName", 0)
  ELSE IF input_file.suffix # input_format THEN Step(f, "FormatMismatch", 0)
  ELSE IF output_file.suffix # output_format THEN Step(f, "FormatMismatch", 0)
  ELSE IF exists(f, output_file) /\ ~overwrite
    THEN Step(f, "DestinationExists", 0)
  ELSE LET g == IF exists(f, output_file) /\ overwrite
                  THEN unlink(f, output_file) ELSE f
       IN IF ~exists(g, input_file) THEN Step(g, "SourceMissing", 0)
          ELSE Step(g, "ok", 0)

\* What one external codec invocation does: t.res is "ok" (the output is
\* written, t.size bytes, after t.dur time units), "fail" (non-zero exit or
\* library exception, nothing written) or "partial" (failure after the output
\* file was created).
ToolOutcomes ==
  [res : {"ok"}, size : 1..MaxBytes, dur : 1..MaxDur]
    \cup [res : {"fail", "partial"}, size : {0}, dur : {1}]

\* subprocess.run(["splat-transform", src, dst, ...], check=True), and the
\* spz load/save pair: one external invocation reading src and writing dst.
external_codec(f, src, dst, t, x) ==
  CASE t.res = "ok" -> Step(write(f, dst, Blob("codec", t.size)), "ok", x + 1)
    [] t.res = "partial" ->
         Step(write(f, dst, Blob("partial", 0)), "CodecInvocationFailed", x + 1)
    [] OTHER -> Step(f, "CodecInvocationFailed", x + 1)

\* compress_sog, decompress_sog, compress_spz, decompress_spz: the check, then
\* the external invocation from input_file to output_file.
direct_codec(f, input_file, output_file, input_format, output_format, overwrite, t) ==
  LET c == file_names_sanity_check(f, input_file, output_file, input_format,
                                   output_format, overwrite)
  IN IF c.err # "ok" THEN <<c>>
     ELSE <<c, external_codec(c.fs, input_file, output_file, t, 0)>>

\* compress_cply with the tool writing output_file directly, no rename.
compress_cply_in_place(f, input_file, output_file, overwrite, t) ==
  LET c == file_names_sanity_check(f, input_file, output_file, "ply", "cply",
                                   overwrite)
  IN IF c.err # "ok" THEN <<c>>
     ELSE <<c, external_codec(c.fs, input_file, output_file, t, 0)>>

\* compress_cply: the tool writes "<output stem>.compressed.ply", which is
\* renamed to output_file when the tool has succeeded.
compress_cply(f, input_file, output_file, overwrite, t) ==
  LET c == file_names_sanity_check(f, input_file, output_file, "ply", "cply",
                                   overwrite)
      temp_output_file == with_suffix_compressed_ply(output_file)
      r == external_codec(c.fs, input_file, temp_output_file, t, 0)
  IN IF c.err # "ok" THEN <<c>>
     ELSE IF r.err # "ok" THEN <<c, r>>
     ELSE <<c, r, Step(rename(r.fs, temp_output_file, output_file), "ok", r.ext)>>

\* decompress_cply renaming the input back whether the tool succeeded or not.
decompress_cply_always_restoring(f, input_file, output_file, overwrite, t) ==
  LET c == file_names_sanity_check(f, input_file, output_file, "cply", "ply",
                                   overwrite)
      temp_input_file == with_suffix_compressed_ply(input_file)
      m == Step(rename(c.fs, input_file, temp_input_file), "ok", 0)
      r == external_codec(m.fs, temp_input_file, output_file, t, 0)
  IN IF c.err # "ok" THEN <<c>>
     ELSE <<c, m, r, Step(rename(r.fs, temp_input_file, input_file), r.err, r.ext)>>

\* decompress_cply: input_file is renamed to "<input stem>.compressed.ply",
\* the tool reads it, and it is renamed back when the tool has succeeded.
decompress_cply(f, input_file, output_file, overwrite, t) ==
  LET c == file_names_sanity_check(f, input_file, output_file, "cply", "ply",
                                   overwrite)
      temp_input_file == with_suffix_compressed_ply(input_file)
      m == Step(rename(c.fs, input_file, temp_input_file), "ok", 0)
      r == external_codec(m.fs, temp_input_file, output_file, t, 0)
  IN IF c.err # "ok" THEN <<c>>
     ELSE IF r.err # "ok" THEN <<c, m, r>>
     ELSE <<c, m, r, Step(rename(r.fs, temp_input_file, input_file), "ok", r.ext)>>

\* The extensions each operation hands to _file_names_sanity_check.
required_input_extension(op, fmt) == IF op = "compress" THEN "ply" ELSE fmt

required_output_extension(op, fmt) == IF op = "compress" THEN fmt ELSE "ply"

\* The statement groups of compress_<fmt>(input_file, output_file, overwrite),
\* in order; the last one carries the call's result.
compress(f, fmt, input_file, output_file, overwrite, t) ==
  IF fmt = "cply" THEN compress_cply(f, input_file, output_file, overwrite, t)
  ELSE direct_codec(f, input_file, output_file,
                    required_input_extension("compress", fmt),
                    required_output_extension("compress", fmt), overwrite, t)

decompress(f, fmt, input_file, output_file, overwrite, t) ==
  IF fmt = "cply" THEN decompress_cply(f, input_file, output_file, overwrite, t)
  ELSE direct_codec(f, input_file, output_file,
                    required_input_extension("decompress", fmt),
                    required_output_extension("decompress", fmt), overwrite, t)

codec(f, op, fmt, input_file, output_file, overwrite, t) ==
  IF op = "compress" THEN compress(f, fmt, input_file, output_file, overwrite, t)
  ELSE decompress(f, fmt, input_file, output_file, overwrite, t)

-----------------------------------------------------------------------------
(* Statistics Store (the tail of round_trip_compression)                   *)

MiB == 1048576

\* The record with the ratio taken the other way round.
CompressionStatistics_ratio_inverted(fmt, original_bytes, compressed_bytes, compression_time, decompression_time) ==
  [complete |-> TRUE,
   compression_format |-> fmt,
   original_size_mb |-> <<original_bytes, MiB>>,
   compressed_size_mb |-> <<compressed_bytes, MiB>>,
   compression_ratio |-> <<compressed_bytes, original_bytes>>,
   compression_time_seconds |-> compression_time,
   decompression_time_seconds |-> decompression_time]

\* A CompressionStatistics record as json holds it.  `complete` stands for
\* "every field of the model is present and has its type" (the path and host
\* fields, which no operation of the model reads, are part of it); sizes and
\* the ratio are exact fractions <<numerator, denominator>>.
CompressionStatistics(fmt, original_bytes, compressed_bytes, compression_time, decompression_time) ==
  [complete |-> TRUE,
   compression_format |-> fmt,
   original_size_mb |-> <<original_bytes, MiB>>,
   compressed_size_mb |-> <<compressed_bytes, MiB>>,
   compression_ratio |-> <<original_bytes, compressed_bytes>>,
   compression_time_seconds |-> compression_time,
   decompression_time_seconds |-> decompression_time]

\* CompressionStatistics.model_validate(value) does not raise.
model_validate(value) ==
  value.complete /\ value.compression_format \in EligibleCompressionFormats

EmptyDict == [k \in {} |-> None]

\* File contents json.load can meet: a JSON object (with the indentation it
\* was written with), any other JSON value, or text that is not JSON (an
\* empty file included).
JsonObject(n, d) == [kind |-> "json", indent |-> n, obj |-> d]
JsonOther == [kind |-> "json_other"]
NotJson == [kind |-> "not_json"]
EmptyFile == [kind |-> "empty"]

\* json.dump(statistics_dict, f, indent=4)
json_dump(d) == JsonObject(4, d)

\* The read with the overwrite test left out: an unparsable file is always
\* replaced by an empty dictionary.
read_statistics_ignoring_overwrite(f, compression_statistics_path, overwrite) ==
  IF ~exists(f, compression_statistics_path)
    THEN [err |-> "ok", loaded |-> "none", dict |-> EmptyDict]
  ELSE LET c == f[compression_statistics_path]
       IN CASE c.kind = "json" -> [err |-> "ok", loaded |-> "dict", dict |-> c.obj]
            [] c.kind = "json_other" ->
                 [err |-> "ok", loaded |-> "other", dict |-> EmptyDict]
            [] OTHER -> [err |-> "ok", loaded |-> "dict", dict |-> EmptyDict]

\* Lines 247-256: the dictionary the merge starts from.
read_statistics(f, compression_statistics_path, overwrite) ==
  IF ~exists(f, compression_statistics_path)
    THEN [err |-> "ok", loaded |-> "none", dict |-> EmptyDict]
  ELSE LET c == f[compression_statistics_path]
       IN CASE c.kind = "json" -> [err |-> "ok", loaded |-> "dict", dict |-> c.obj]
            [] c.kind = "json_other" ->
                 [err |-> "ok", loaded |-> "other", dict |-> EmptyDict]
            [] OTHER ->  \* json.JSONDecodeError
                 IF ~overwrite
                   THEN [err |-> "CorruptStatsFile", loaded |-> "none",
                         dict |-> EmptyDict]
                   ELSE [err |-> "ok", loaded |-> "dict", dict |-> EmptyDict]

\* The entry test with the value's validation left out.
is_valid_entry_key_only(key, value) == key \in EligibleCompressionFormats

is_valid_entry(key, value) ==
  key \in EligibleCompressionFormats /\ model_validate(value)

\* The validation deleting invalid entries whatever the overwrite flag says.
validate_statistics_always_purging(r, overwrite) ==
  IF r.err # "ok" \/ r.loaded = "none" THEN [err |-> r.err, dict |-> r.dict]
  ELSE IF r.loaded = "other" THEN [err |-> "AttributeError", dict |-> r.dict]
  ELSE [err |-> "ok",
        dict |-> [k \in {j \in DOMAIN r.dict : is_valid_entry(j, r.dict[j])}
                    |-> r.dict[k]]]

\* Lines 258-277, run when the file existed: every entry is validated; an
\* invalid one is deleted under overwrite and raises otherwise.  A loaded
\* value that is no dictionary has no items(): AttributeError.
validate_statistics(r, overwrite) ==
  IF r.err # "ok" \/ r.loaded = "none" THEN [err |-> r.err, dict |-> r.dict]
  ELSE IF r.loaded = "other" THEN [err |-> "AttributeError", dict |-> r.dict]
  ELSE LET keys_to_delete ==
             {k \in DOMAIN r.dict : ~is_valid_entry(k, r.dict[k])}
       IN IF keys_to_delete # {} /\ ~overwrite
            THEN [err |-> "InvalidStatsEntry", dict |-> r.dict]
            ELSE [err |-> "ok",
                  dict |-> [k \in DOMAIN r.dict \ keys_to_delete |-> r.dict[k]]]

\* The assignment on a fresh dictionary: the other entries are lost.
set_entry_in_fresh_dict(d, compression_format, record) ==
  [k \in {compression_format} |-> record]

\* The assignment as setdefault: an existing entry is kept.
set_entry_if_missing(d, compression_format, record) ==
  [k \in DOMAIN d \cup {compression_format} |->
     IF k \in DOMAIN d THEN d[k] ELSE record]

\* Line 280: statistics_dict[compression_format] = record
set_entry(d, compression_format, record) ==
  [k \in DOMAIN d \cup {compression_format} |->
     IF k = compression_format THEN record ELSE d[k]]

\* Lines 247-284 as a whole: read, validate, set the entry, write back.
merge_statistics(f, compression_statistics_path, compression_format, record, overwrite) ==
  LET v == validate_statistics(
             read_statistics(f, compression_statistics_path, overwrite),
             overwrite)
  IN IF v.err # "ok" THEN [err |-> v.err, fs |-> f]
     ELSE [err |-> "ok",
           fs |-> write(f, compression_statistics_path,
                        json_dump(set_entry(v.dict, compression_format, record)))]

-----------------------------------------------------------------------------
(* Round-Trip Engine *)

\* Lines 194-205: the paths a call works on.
decompressed_path(input_file, compression_format, decompressed_file) ==
  IF decompressed_file = None
    THEN Path(input_file.dir,
              input_file.stem \o "_decompressed_" \o compression_format, "ply")
    ELSE decompressed_file

statistics_path(input_file, decompressed_file) ==
  IF decompressed_file = None
    THEN Path(input_file.dir, "compression_statistics", "json")
    ELSE Path(decompressed_file.dir,
              decompressed_file.stem \o "_compression_statistics", "json")

compressed_path(input_file, compression_format, compressed_file) ==
  IF compressed_file = None
    THEN with_suffix(input_file, compression_format)
    ELSE compressed_file

\* round_trip_compression(input_file, compression_format, compressed_file=,
\* decompressed_file=, overwrite=), with tc and td what the external codec
\* does in the compress and in the decompress step.  The result carries the
\* file system, "ok" or the error raised, the external invocations made and
\* the record built ("stats", None when the call raised before building it).
round_trip_compression(f, input_file, compression_format, compressed_file, decompressed_file, overwrite, tc, td) ==
  LET dfile == decompressed_path(input_file, compression_format,
                                 decompressed_file)
      spath == statistics_path(input_file, decompressed_file)
      cfile == compressed_path(input_file, compression_format, compressed_file)
      start_time == 0
      after_compress == start_time + tc.dur
      compression_time == after_compress - start_time
      after_decompress == after_compress + td.dur
      decompression_time == after_decompress - start_time
      failed(g, e, n) == [fs |-> g, err |-> e, ext |-> n, stats |-> None]
      \* Lines 233-286, with c and d the results of the two codec calls.
      record_and_merge(c, d) ==
        IF ~exists(d.fs, input_file) \/ ~exists(d.fs, cfile)
          THEN failed(d.fs, "FileNotFoundError", c.ext + d.ext)
        ELSE IF d.fs[cfile].size = 0
          THEN failed(d.fs, "ZeroDivisionError", c.ext + d.ext)
        ELSE LET record == CompressionStatistics(
                             compression_format, d.fs[input_file].size,
                             d.fs[cfile].size, compression_time,
                             decompression_time)
                 m == merge_statistics(d.fs, spath, compression_format, record,
                                       overwrite)
             IN [fs |-> m.fs, err |-> m.err, ext |-> c.ext + d.ext,
                 stats |-> record]
      \* Lines 224-231, with c the result of the compress call.
      decompress_and_record(c) ==
        Only({IF d.err # "ok" THEN failed(d.fs, d.err, c.ext + d.ext)
              ELSE record_and_merge(c, d) :
                d \in {Last(decompress(c.fs, compression_format, cfile, dfile,
                                       overwrite, td))}})
  IN Only({IF c.err # "ok" THEN failed(c.fs, c.err, c.ext)
           ELSE decompress_and_record(c) :
             c \in {Last(compress(f, compression_format, input_file, cfile,
                                  overwrite, tc))}})

-----------------------------------------------------------------------------
(* round_trip_compression on one asset with the default paths, so that     *)
(* every format shares <dir>/compression_statistics.json.  The statistics  *)
(* file starts with any content a file can have.                           *)

Asset == Path(<<"scene">>, "point_cloud", "ply")

AssetStatistics == statistics_path(Asset, None)

\* Keys a statistics file may hold: the formats and one unknown key.
StatsKeys == EligibleCompressionFormats \cup {"zip"}

\* An entry found in the file: a valid record, a record with a field missing
\* or mistyped, or a record naming an unknown format.
OldValue(k, v) ==
  [CompressionStatistics(IF k \in EligibleCompressionFormats THEN k ELSE "sog",
                         0, 1, 0, 0)
     EXCEPT !.complete = (v # "incomplete"),
            !.compression_format = IF v = "badformat" THEN "zip" ELSE @]

OldDicts ==
  UNION {[keys -> {"valid", "incomplete", "badformat"}] : keys \in SUBSET StatsKeys}

StatsContents ==
  {JsonObject(n, [k \in DOMAIN d |-> OldValue(k, d[k])]) :
     n \in {0, 4}, d \in OldDicts}
    \cup {JsonOther, NotJson, EmptyFile}

\* The compressed and restored files earlier runs have left.
Artifacts ==
  UNION {{compressed_path(Asset, f, None), decompressed_path(Asset, f, None)} :
           f \in EligibleCompressionFormats}

Init ==
  /\ \E n \in 1..MaxBytes, left \in {{}, Artifacts} :
       LET files == [p \in {Asset} \cup left |->
                       IF p = Asset THEN Blob("user", n) ELSE Blob("codec", 1)]
       IN \/ fs = files
          \/ \E c \in StatsContents : fs = write(files, AssetStatistics, c)
  /\ NoCall /\ NoProcs /\ NoBatch
  /\ pre = fs

\* One call of round_trip_compression(Asset, fmt, overwrite=ow).
RoundTrip ==
  /\ outcome = "none"
  /\ \E fmt \in EligibleCompressionFormats, ow \in BOOLEAN,
        tc \in ToolOutcomes, td \in ToolOutcomes :
       LET r == round_trip_compression(fs, Asset, fmt, None, None, ow, tc, td)
       IN /\ (tc.res # "ok" => td = tc)  \* td is not used when compress fails
          /\ call' = [op |-> "round_trip", fmt |-> fmt, overwrite |-> ow,
                      tc |-> tc, td |-> td, stats |-> r.stats]
          /\ pre' = fs
          /\ fs' = r.fs
          /\ ext' = r.ext
          /\ outcome' = r.err
  /\ UNCHANGED <<pc, procs, serialized, batch>>

Next == RoundTrip

Spec == Init /\ [][Next]_vars

\* The call ran both codec steps and came to the statistics merge.
MergeReached ==
  outcome \in {"ok", "CorruptStatsFile", "InvalidStatsEntry", "AttributeError"}

\* An entry as the StatsRecord invariant wants it: a legal format as key and
\* a value of the CompressionStatistics shape.
WellFormedEntry(k, v) ==
  /\ k \in EligibleCompressionFormats
  /\ v.complete
  /\ v.compression_format \in EligibleCompressionFormats

\* The statistics file held a JSON object when the call started.
PreObject ==
  exists(pre, AssetStatistics) /\ pre[AssetStatistics].kind = "json"

PreDict == pre[AssetStatistics].obj

PostObject ==
  exists(fs, AssetStatistics) /\ fs[AssetStatistics].kind = "json"

PostDict == fs[AssetStatistics].obj

\* The statistics file is what it was when the call started.
StatisticsFileUntouched ==
  /\ exists(fs, AssetStatistics) <=> exists(pre, AssetStatistics)
  /\ exists(pre, AssetStatistics) => fs[AssetStatistics] = pre[AssetStatistics]

\* C1: when the statistics file holds a valid entry for format A and a round
\* trip for another format B completes successfully on the same asset, the
\* file afterwards holds A's entry unchanged and B's new record, for either
\* value of overwrite.
C1_MergePreservesOtherFormats ==
  \A A \in EligibleCompressionFormats :
    (/\ outcome = "ok"
     /\ A # call.fmt
     /\ PreObject
     /\ A \in DOMAIN PreDict
     /\ WellFormedEntry(A, PreDict[A]))
    => /\ PostObject
       /\ A \in DOMAIN PostDict
       /\ PostDict[A] = PreDict[A]
       /\ call.fmt \in DOMAIN PostDict
       /\ PostDict[call.fmt] = call.stats

C1_Witness ==
  /\ outcome = "ok"
  /\ ~call.overwrite
  /\ call.fmt = "spz"
  /\ PreObject
  /\ DOMAIN PreDict = {"sog"}
  /\ WellFormedEntry("sog", PreDict["sog"])
  /\ DOMAIN PostDict = {"sog", "spz"}

PreUnparsable ==
  /\ exists(pre, AssetStatistics)
  /\ pre[AssetStatistics].kind \in {"not_json", "empty"}

\* C3: when the statistics file exists but cannot be parsed, a merge with
\* overwrite=false aborts with CorruptStatsFile and the file is exactly what
\* it was; with overwrite=true the merge proceeds from an empty mapping, so
\* the file ends holding the new record alone.
C3_CorruptFilePolicy ==
  (MergeReached /\ PreUnparsable)
  => IF ~call.overwrite
       THEN outcome = "CorruptStatsFile" /\ StatisticsFileUntouched
       ELSE /\ outcome = "ok"
            /\ PostObject
            /\ DOMAIN PostDict = {call.fmt}
            /\ PostDict[call.fmt] = call.stats

C3_Witness ==
  /\ outcome = "CorruptStatsFile"
  /\ PreUnparsable
  /\ pre[AssetStatistics].kind = "not_json"
  /\ ~call.overwrite
  /\ ext = 2

\* C4: when the statistics file holds an entry whose key is no recognized
\* format or whose value does not validate, a merge with overwrite=false
\* aborts with InvalidStatsEntry and the file is exactly what it was.
C4_InvalidEntryAbortsStrictMerge ==
  (/\ MergeReached
   /\ ~call.overwrite
   /\ PreObject
   /\ \E k \in DOMAIN PreDict : ~WellFormedEntry(k, PreDict[k]))
  => outcome = "InvalidStatsEntry" /\ StatisticsFileUntouched

C4_Witness ==
  /\ MergeReached
  /\ ~call.overwrite
  /\ PreObject
  /\ DOMAIN PreDict = {"sog", "spz"}
  /\ WellFormedEntry("sog", PreDict["sog"])
  /\ ~WellFormedEntry("spz", PreDict["spz"])
  /\ call.fmt = "cply"
  /\ outcome = "InvalidStatsEntry"

\* C5: after every successful round_trip_compression call, in either
\* overwrite mode and from any prior file content, the statistics file is a
\* mapping whose every key is a legal format and whose every value has the
\* CompressionStatistics shape.
C5_StatsRecordInvariant ==
  outcome = "ok"
  => /\ PostObject
     /\ \A k \in DOMAIN PostDict : WellFormedEntry(k, PostDict[k])

C5_Witness ==
  /\ outcome = "ok"
  /\ call.overwrite
  /\ PreObject
  /\ DOMAIN PreDict = StatsKeys
  /\ ~WellFormedEntry("sog", PreDict["sog"])
  /\ WellFormedEntry("spz", PreDict["spz"])
  /\ call.fmt = "cply"
  /\ DOMAIN PostDict = {"spz", "cply"}

-----------------------------------------------------------------------------
(* One codec operation on arbitrary paths, statement group by statement    *)
(* group.                                                                  *)

CodecPaths ==
  {Path(<<"a">>, "pc", x) : x \in EligibleFileFormats}
    \cup {Path(<<"b">>, "pc", "ply"), Path(<<"a">>, "pc.compressed", "ply")}

CodecTrace ==
  codec(pre, call.op, call.fmt, call.input_file, call.output_file,
        call.overwrite, call.t)

InitCodec ==
  /\ \E existing \in SUBSET CodecPaths :
       fs = [p \in existing |-> Blob("user", 1)]
  /\ NoCall /\ NoProcs /\ NoBatch
  /\ pre = fs

\* A codec operation is called: _file_names_sanity_check runs.
CodecCall ==
  /\ outcome = "none"
  /\ \E op \in {"compress", "decompress"}, fmt \in EligibleCompressionFormats,
        i \in CodecPaths, o \in CodecPaths, ow \in BOOLEAN, t \in ToolOutcomes :
       LET tr == codec(fs, op, fmt, i, o, ow, t)
       IN /\ call' = [op |-> op, fmt |-> fmt, input_file |-> i,
                      output_file |-> o, overwrite |-> ow, t |-> t]
          /\ pre' = fs
          /\ pc' = 1
          /\ fs' = tr[1].fs
          /\ ext' = tr[1].ext
          /\ outcome' = IF Len(tr) = 1 THEN tr[1].err ELSE "running"
  /\ UNCHANGED <<procs, serialized, batch>>

\* The next statement group of the running operation (a rename or the
\* external invocation).
CodecStep ==
  /\ outcome = "running"
  /\ LET tr == CodecTrace
     IN /\ pc' = pc + 1
        /\ fs' = tr[pc + 1].fs
        /\ ext' = tr[pc + 1].ext
        /\ outcome' = IF Len(tr) = pc + 1 THEN tr[pc + 1].err ELSE "running"
  /\ UNCHANGED <<call, pre, procs, serialized, batch>>

NextCodec == CodecCall \/ CodecStep

SpecCodec == InitCodec /\ [][NextCodec]_vars

\* A codec operation has been called (and may still be running).
CodecCalled == outcome # "none"

\* The call's extensions are not the ones the operation requires.
ExtensionMismatch ==
  \/ call.input_file.suffix # required_input_extension(call.op, call.fmt)
  \/ call.output_file.suffix # required_output_extension(call.op, call.fmt)

\* The call was made with overwrite=false on a destination that existed.
DestinationExisted == ~call.overwrite /\ exists(pre, call.output_file)

\* C6 as stated: every codec operation called with overwrite=false on an
\* existing destination raises DestinationExists, invokes no external codec
\* and leaves the destination unchanged.
C6_AlwaysDestinationExists ==
  (CodecCalled /\ DestinationExisted) =>
    /\ outcome = "DestinationExists"
    /\ ext = 0
    /\ exists(fs, call.output_file)
    /\ fs[call.output_file] = pre[call.output_file]

\* C6 as amended: such a call always fails a precondition check, with no
\* external codec invoked and the whole file system (the destination
\* included) unchanged; the error is DestinationExists when the two file
\* names differ and both extensions are the required ones, and otherwise the
\* error of the earlier check (names must differ, FormatMismatch).
C6_DestinationExistsAfterEarlierChecks ==
  (CodecCalled /\ DestinationExisted) =>
    /\ outcome \in {"SameName", "FormatMismatch", "DestinationExists"}
    /\ (outcome = "DestinationExists") <=>
         (name(call.input_file) # name(call.output_file) /\ ~ExtensionMismatch)
    /\ ext = 0
    /\ fs = pre

C6_Witness ==
  /\ CodecCalled /\ DestinationExisted
  /\ outcome = "DestinationExists"
  /\ exists(pre, call.input_file)
  /\ fs[call.output_file] = Blob("user", 1)

\* C7 as stated: a codec operation whose input or output extension is not
\* the required one raises FormatMismatch, and no external invocation is
\* made at any point of the call.
C7_AlwaysFormatMismatch ==
  (CodecCalled /\ ExtensionMismatch) =>
    (outcome = "FormatMismatch" /\ ext = 0)

\* C7 as amended: such a call raises FormatMismatch unless input and output
\* have the same file name, in which case the names-must-differ error of the
\* first check is raised; either way no external invocation is made at any
\* point of the call and the file system is unchanged.
C7_FormatMismatchUnlessSameName ==
  (CodecCalled /\ ExtensionMismatch) =>
    /\ outcome = IF name(call.input_file) = name(call.output_file)
                   THEN "SameName" ELSE "FormatMismatch"
    /\ ext = 0
    /\ fs = pre

C7_Witness ==
  /\ CodecCalled /\ ExtensionMismatch
  /\ outcome = "FormatMismatch"
  /\ exists(pre, call.input_file)
  /\ call.overwrite /\ exists(pre, call.output_file)

-----------------------------------------------------------------------------
(* Two processes merging into the same statistics file.  Each has run its  *)
(* codec steps and executes lines 247-284 of round_trip_compression for    *)
(* its own format: it reads and validates the file and sets its entry in   *)
(* its own dictionary, opens the file for writing (which truncates it) and *)
(* dumps the dictionary.  The code takes no lock; `serialized` says        *)
(* whether the callers exclude each other.                                 *)

Procs == {1, 2}

ProcRecord(fmt) == CompressionStatistics(fmt, 1, 1, 1, 2)

InMerge(p) == procs[p].pc \in {"loaded", "opened"}

InitConc ==
  /\ \/ fs = EmptyDict
     \/ \E c \in StatsContents : fs = [p \in {AssetStatistics} |-> c]
  /\ \E f \in [Procs -> EligibleCompressionFormats], o \in [Procs -> BOOLEAN] :
       /\ f[1] # f[2]
       /\ procs = [p \in Procs |->
                     [pc |-> "start", fmt |-> f[p], overwrite |-> o[p],
                      dict |-> EmptyDict, err |-> "none"]]
  /\ serialized \in BOOLEAN
  /\ NoCall /\ NoBatch
  /\ pre = fs

\* Lines 247-280: read, validate, set the entry in the local dictionary.
ConcRead(p) ==
  /\ procs[p].pc = "start"
  /\ serialized => \A q \in Procs \ {p} : ~InMerge(q)
  /\ LET ow == procs[p].overwrite
         v == validate_statistics(read_statistics(fs, AssetStatistics, ow), ow)
     IN procs' = [procs EXCEPT ![p] =
                    IF v.err # "ok"
                      THEN [@ EXCEPT !.pc = "failed", !.err = v.err]
                      ELSE [@ EXCEPT !.pc = "loaded",
                                     !.dict = set_entry(v.dict, procs[p].fmt,
                                                        ProcRecord(procs[p].fmt))]]
  /\ UNCHANGED <<fs, pc, call, outcome, ext, pre, serialized, batch>>

\* Line 283: open("w") truncates the file.
ConcOpen(p) ==
  /\ procs[p].pc = "loaded"
  /\ fs' = write(fs, AssetStatistics, EmptyFile)
  /\ procs' = [procs EXCEPT ![p].pc = "opened"]
  /\ UNCHANGED <<pc, call, outcome, ext, pre, serialized, batch>>

\* Line 284: json.dump writes from offset 0.  When another process has
\* written since the truncation, the file ends as this process's text, or as
\* this text followed by the rest of the longer one, which is no JSON.
ConcDump(p) ==
  /\ procs[p].pc = "opened"
  /\ \/ fs' = write(fs, AssetStatistics, json_dump(procs[p].dict))
     \/ /\ fs[AssetStatistics] # EmptyFile
        /\ fs' = write(fs, AssetStatistics, NotJson)
  /\ procs' = [procs EXCEPT ![p].pc = "done"]
  /\ UNCHANGED <<pc, call, outcome, ext, pre, serialized, batch>>

NextConc == \E p \in Procs : ConcRead(p) \/ ConcOpen(p) \/ ConcDump(p)

SpecConc == InitConc /\ [][NextConc]_vars

BothMerged == \A p \in Procs : procs[p].pc = "done"

\* C10: merges of two distinct formats into the same statistics file that
\* exclude each other always end with both entries in the file; without the
\* exclusion the read and the write of the two merges interleave, and a final
\* file lacking one of the two entries is reachable (C10_LostUpdate).
C10_SerializedMergesKeepBoth ==
  (serialized /\ BothMerged)
  => /\ PostObject
     /\ \A p \in Procs :
          /\ procs[p].fmt \in DOMAIN PostDict
          /\ PostDict[procs[p].fmt] = ProcRecord(procs[p].fmt)

C10_LostUpdate ==
  /\ ~serialized
  /\ BothMerged
  /\ pre = EmptyDict
  /\ PostObject
  /\ \E p \in Procs : procs[p].fmt \notin DOMAIN PostDict

-----------------------------------------------------------------------------
(* Corpus Stager and Batch Driver (run_benchmark_compression.py)           *)

\* A directory given as a path: the path of the files directly in it.
AsDir(p) == p.dir \o <<IF p.suffix = "" THEN p.stem ELSE p.stem \o "." \o p.suffix>>

IsPrefix(d, e) == Len(d) <= Len(e) /\ SubSeq(e, 1, Len(d)) = d

\* The files of the tree rooted at directory d.
Under(f, d) == {p \in DOMAIN f : IsPrefix(d, p.dir)}

\* A directory exists when it holds a file (corpora are never empty).
is_dir(f, d) == Under(f, d) # {}

\* shutil.rmtree(d)
rmtree(f, d) == [p \in DOMAIN f \ Under(f, d) |-> f[p]]

\* A file of the tree rooted at `from`, moved to the tree rooted at `to`.
Rebase(p, from, to) ==
  Path(to \o SubSeq(p.dir, Len(from) + 1, Len(p.dir)), p.stem, p.suffix)

Tar(members) == [kind |-> "tar", files |-> members]

\* tar.extractall(path=staging_dir): every member is written under it.
extractall(f, tar, staging_dir) ==
  LET placed == {Rebase(m, <<>>, staging_dir) : m \in DOMAIN tar.files}
  IN [p \in DOMAIN f \cup placed |->
        IF p \in placed THEN tar.files[Rebase(p, staging_dir, <<>>)] ELSE f[p]]

\* shutil.copytree(source, staging_dir)
copytree(f, source_dir, staging_dir) ==
  LET placed == {Rebase(p, source_dir, staging_dir) : p \in Under(f, source_dir)}
  IN [p \in DOMAIN f \cup placed |->
        IF p \in placed THEN f[Rebase(p, staging_dir, source_dir)] ELSE f[p]]

\* tar.add(staging_dir, arcname=staging_dir_name): the members are named from
\* the staging directory's own name on.
tar_add(f, output_dir, staging_dir) ==
  Tar([m \in {Rebase(p, output_dir, <<>>) : p \in Under(f, staging_dir)} |->
         f[Rebase(m, <<>>, output_dir)]])

\* _setup_staging_dir(source, output_dir, overwrite=): the staging directory
\* and the file system it leaves, or the error raised.
setup_staging_dir(f, source, output_dir, overwrite) ==
  LET is_tar == exists(f, source) /\ source.suffix = "tar"
      staging_dir ==
        output_dir \o <<IF is_tar THEN source.stem ELSE Last(AsDir(source))>>
      cleared == IF is_dir(f, staging_dir) /\ overwrite
                   THEN rmtree(f, staging_dir) ELSE f
      done(e, g) == [err |-> e, staging_dir |-> staging_dir, fs |-> g]
  IN IF is_tar
       THEN IF is_dir(cleared, staging_dir) THEN done("ok", cleared)
            \* tarfile.open(source) after the source went with the old tree
            ELSE IF ~exists(cleared, source) THEN done("FileNotFoundError", cleared)
            ELSE done("ok", extractall(cleared, f[source], staging_dir))
     ELSE IF is_dir(f, AsDir(source))
       THEN IF is_dir(cleared, staging_dir) THEN done("ok", cleared)
            \* shutil.copytree of a source that went with the old tree
            ELSE IF ~is_dir(cleared, AsDir(source))
              THEN done("FileNotFoundError", cleared)
            ELSE done("ok", copytree(cleared, AsDir(source), staging_dir))
     ELSE [err |-> "UnsupportedSource", staging_dir |-> <<>>, fs |-> f]

\* `it in str(p)`: the filter string occurs in the path as written, output
\* and staging directory included.  The strings of the model are whole path
\* components, so occurring is being one of them.
occurs_in(it, p) == \E i \in 1..Len(p.dir) : p.dir[i] = it

\* Lines 56-63: the assets found under the staging directory that the
\* iteration filter keeps (an empty filter keeps all).
discover(f, staging_dir, iteration_filter) ==
  {p \in Under(f, staging_dir) :
     /\ p.stem = "point_cloud" /\ p.suffix = "ply"
     /\ iteration_filter # <<>> =>
          \E i \in 1..Len(iteration_filter) : occurs_in(iteration_filter[i], p)}

\* An update that drops what the dictionary held.
dict_update_replacing(a, b) == b

\* dict.update
dict_update(a, b) ==
  [k \in DOMAIN a \cup DOMAIN b |-> IF k \in DOMAIN b THEN b[k] ELSE a[k]]

\* Lines 193-210: the statistics file the engine wrote is merged into the
\* scene's compression_stats.json and deleted.  An existing file that cannot
\* be loaded is taken as empty; a loaded value that is no dictionary has no
\* update(): AttributeError.
consolidate_statistics(f, stats_file, generated_stats_path) ==
  IF ~exists(f, generated_stats_path) THEN [err |-> "ok", fs |-> f]
  ELSE LET old == IF exists(f, stats_file) THEN f[stats_file] ELSE EmptyFile
           cur == f[generated_stats_path]
       IN IF cur.kind \in {"not_json", "empty"}
            THEN [err |-> "JSONDecodeError", fs |-> f]
          ELSE IF old.kind = "json_other" \/ cur.kind # "json"
            THEN [err |-> "AttributeError", fs |-> f]
          ELSE LET new_stats_data == IF old.kind = "json" THEN old.obj ELSE EmptyDict
               IN [err |-> "ok",
                   fs |-> unlink(write(f, stats_file,
                                       json_dump(dict_update(new_stats_data, cur.obj))),
                                 generated_stats_path)]

\* Whether round_trip_compression takes the input_path_info,
\* compressed_path_info and decompressed_path_info keyword arguments that
\* _process_scene passes (lines 173-184).  They describe the path fields of
\* the record, which the model does not hold.
accepts_path_info == TRUE

\* Lines 187-210 after the call r of round_trip_compression: what it raised
\* ends the iteration, else its statistics are consolidated.
after_round_trip(r, stats_file, generated_stats_path) ==
  IF r.err # "ok" THEN [fs |-> r.fs, result |-> r.err, ext |-> r.ext]
  ELSE Only({[fs |-> m.fs, result |-> m.err, ext |-> r.ext] :
               m \in {consolidate_statistics(r.fs, stats_file,
                                             generated_stats_path)}})

\* The skip test without the overwrite flag.
skip_unit_ignoring_overwrite(f, final_compressed_file, overwrite) ==
  exists(f, final_compressed_file)

\* Line 160: the unit is skipped.
skip_unit(f, final_compressed_file, overwrite) ==
  exists(f, final_compressed_file) /\ ~overwrite

\* One iteration of the loop of _process_scene (lines 156-213) for asset
\* source_ply and format fmt: "skipped", "ok", or the exception caught and
\* logged.
process_unit(f, source_ply, fmt, overwrite, tc, td) ==
  LET ply_dir == source_ply.dir
      stats_file == Path(ply_dir, "compression_stats", "json")
      final_compressed_file == Path(ply_dir \o <<"compressed">>, "point_cloud", fmt)
      final_decompressed_file ==
        Path(ply_dir \o <<"decompressed">>, "point_cloud_" \o fmt, "ply")
      generated_stats_path ==
        Path(final_decompressed_file.dir,
             final_decompressed_file.stem \o "_compression_statistics", "json")
  IN IF skip_unit(f, final_compressed_file, overwrite)
       THEN [fs |-> f, result |-> "skipped", ext |-> 0]
     ELSE IF ~accepts_path_info THEN [fs |-> f, result |-> "TypeError", ext |-> 0]
     ELSE Only({after_round_trip(r, stats_file, generated_stats_path) :
                  r \in {round_trip_compression(f, source_ply, fmt,
                            final_compressed_file, final_decompressed_file,
                            overwrite, tc, td)}})

\* The loop without the except clause of lines 212-213: what a unit raises
\* leaves run_benchmark.
after_unit_reraising(b, result) ==
  IF result \notin {"ok", "skipped"} THEN [b EXCEPT !.pc = "raised"]
  ELSE IF b.j < Len(b.formats) THEN [b EXCEPT !.j = b.j + 1]
  ELSE IF b.i < Len(b.ply_files) THEN [b EXCEPT !.i = b.i + 1, !.j = 1]
  ELSE [b EXCEPT !.pc = "pack"]

\* The loop position after a unit: the next format, else the next scene,
\* else the packaging.  Whatever the unit raised was caught (lines 212-213).
after_unit(b, result) ==
  IF b.j < Len(b.formats) THEN [b EXCEPT !.j = b.j + 1]
  ELSE IF b.i < Len(b.ply_files) THEN [b EXCEPT !.i = b.i + 1, !.j = 1]
  ELSE [b EXCEPT !.pc = "pack"]

\* The corpus: two scenes, one asset each.
CorpusMembers == {Path(<<"s1", "it4">>, "point_cloud", "ply"), Path(<<"s2", "it7">>, "point_cloud", "ply")}

CorpusTar == Path(<<"in">>, "corpus", "tar")
CorpusDir == Path(<<"in">>, "corpus", "")
OtherFile == Path(<<"in">>, "notes", "txt")
MissingSource == Path(<<"in">>, "gone", "tar")

Sources == {CorpusTar, CorpusDir, OtherFile, MissingSource}

\* The lists of formats a run is asked for: each format alone, and three
\* lists of two.
FormatLists ==
  {<<a>> : a \in EligibleCompressionFormats}
    \cup {<<"sog", "spz">>, <<"spz", "cply">>, <<"cply", "sog">>}

IterationFilters == {<<>>, <<"it4">>, <<"it4", "it7">>}

\* The orders in which rglob may yield a set of paths.
Orders(S) ==
  {s \in [1..Cardinality(S) -> S] : \A i, j \in 1..Cardinality(S) : s[i] = s[j] => i = j}

\* In the batch the codec's output sizes and wall-times are fixed: they do
\* not influence the driver.
BatchToolOutcomes == {t \in ToolOutcomes : t.size <= 1 /\ t.dur = 1}

InitBatch ==
  /\ fs = [p \in {CorpusTar, OtherFile}
                   \cup {Rebase(m, <<>>, AsDir(CorpusDir)) : m \in CorpusMembers} |->
             IF p = CorpusTar THEN Tar([m \in CorpusMembers |-> Blob("user", 1)])
             ELSE Blob("user", 1)]
  /\ NoCall /\ NoProcs /\ NoBatch
  /\ pre = fs

\* run_benchmark up to its loop (lines 45-72): the source is staged and the
\* assets are discovered and filtered.
RunBenchmark ==
  /\ batch.pc = "idle"
  /\ \E source \in Sources, formats \in FormatLists, overwrite \in BOOLEAN,
        iteration_filter \in IterationFilters :
       LET output_dir == <<"out">>
           st == setup_staging_dir(fs, source, output_dir, overwrite)
           found == discover(st.fs, st.staging_dir, iteration_filter)
           b == [pc |-> "scenes", source |-> source, output_dir |-> output_dir,
                 formats |-> formats, overwrite |-> overwrite,
                 keep_extracted |-> FALSE,
                 iteration_filter |-> iteration_filter,
                 staging_dir |-> st.staging_dir, ply_files |-> <<>>,
                 i |-> 1, j |-> 1, units |-> <<>>]
       IN IF ~exists(fs, source) /\ ~is_dir(fs, AsDir(source))
            THEN /\ batch' = [b EXCEPT !.pc = "raised"]
                 /\ fs' = fs
          ELSE IF st.err # "ok"
            THEN /\ batch' = [b EXCEPT !.pc = "raised"]
                 /\ fs' = st.fs
          ELSE /\ fs' = st.fs
               /\ \E ply_files \in Orders(found) :
                    batch' = [b EXCEPT !.ply_files = ply_files,
                                       !.pc = IF found = {} THEN "pack" ELSE "scenes"]
  /\ pre' = fs
  /\ UNCHANGED <<pc, call, outcome, ext, procs, serialized>>

\* One (asset, format) pair of the loops at lines 77 and 156.
ProcessUnit ==
  /\ batch.pc = "scenes"
  /\ \E tc \in BatchToolOutcomes, td \in BatchToolOutcomes :
       \* an invocation that is not made has no outcome of its own
       /\ tc.res # "ok" => td = tc
       /\ \E u \in {process_unit(fs, batch.ply_files[batch.i], batch.formats[batch.j], batch.overwrite, tc, td)} :
            /\ u.result = "skipped" => tc.res = "ok" /\ td = tc
            /\ fs' = u.fs
            /\ batch' = after_unit(
                          [batch EXCEPT !.units =
                             Append(@, [ply |-> batch.ply_files[batch.i],
                                        fmt |-> batch.formats[batch.j],
                                        result |-> u.result,
                                        codecs_ok |-> tc.res = "ok" /\ td.res = "ok"])],
                          u.result)
  /\ UNCHANGED <<pc, call, outcome, ext, pre, procs, serialized>>

\* Lines 88-96: the staging tree is archived, and removed unless kept.  The
\* keep_extracted argument is first read here, so its value is drawn here.
Pack ==
  /\ batch.pc = "pack"
  /\ \E keep_extracted \in BOOLEAN :
       LET final_tar_path ==
             Path(batch.output_dir, Last(batch.staging_dir), "tar")
           archived == write(fs, final_tar_path,
                             tar_add(fs, batch.output_dir, batch.staging_dir))
       IN /\ fs' = IF keep_extracted THEN archived
                   ELSE rmtree(archived, batch.staging_dir)
          /\ batch' = [batch EXCEPT !.pc = "finished",
                                    !.keep_extracted = keep_extracted]
  /\ UNCHANGED <<pc, call, outcome, ext, pre, procs, serialized>>

NextBatch == RunBenchmark \/ ProcessUnit \/ Pack

SpecBatch == InitBatch /\ [][NextBatch]_vars

\* The program is sequential and every external call returns: a run that
\* can take a step takes it.
SpecBatchFair == SpecBatch /\ WF_vars(NextBatch)

-----------------------------------------------------------------------------
(* Batch claims *)

InLoop == batch.pc \in {"scenes", "pack", "finished"}

\* The (asset, format) pairs of a run in loop order: formats vary fastest.
PairAt(b, k) ==
  [ply |-> b.ply_files[((k - 1) \div Len(b.formats)) + 1],
   fmt |-> b.formats[((k - 1) % Len(b.formats)) + 1]]

NumPairs(b) == Len(b.ply_files) * Len(b.formats)

\* The units attempted so far are the first pairs of the run, in order.
AttemptedInOrder ==
  /\ Len(batch.units) <= NumPairs(batch)
  /\ \A k \in 1..Len(batch.units) :
       /\ batch.units[k].ply = PairAt(batch, k).ply
       /\ batch.units[k].fmt = PairAt(batch, k).fmt

Failed(u) == u.result \notin {"ok", "skipped"}

FinalTarPath == Path(batch.output_dir, Last(batch.staging_dir), "tar")

\* C8: whatever the units raise, the loop goes on to the next pair: the
\* units attempted are always the first pairs of the run in order, behind
\* the current position; once the loop is left every pair was attempted; a
\* run that entered the loop always finishes; and a finished run has written
\* the final archive.
C8_BatchToleratesUnitFailures ==
  /\ [](InLoop => AttemptedInOrder)
  /\ [](batch.pc = "scenes" =>
         Len(batch.units) = (batch.i - 1) * Len(batch.formats) + (batch.j - 1))
  /\ [](batch.pc \in {"pack", "finished"} => Len(batch.units) = NumPairs(batch))
  /\ [](batch.pc = "finished" =>
         exists(fs, FinalTarPath) /\ fs[FinalTarPath].kind = "tar")
  /\ (batch.pc \in {"scenes", "pack"} ~> batch.pc = "finished")

\* A finished run of four units whose first unit failed and whose later
\* units include a success, with the archive written.
C8_Witness ==
  /\ batch.pc = "finished"
  /\ Len(batch.units) = 4
  /\ Failed(batch.units[1])
  /\ \E k \in 2..4 : Failed(batch.units[k])
  /\ \E k \in 2..4 : batch.units[k].result = "ok"
  /\ exists(fs, FinalTarPath)

\* The end-to-end scenario: the tar corpus, both scenes kept, two formats,
\* every codec invocation successful.
EndToEndScenario ==
  /\ batch.pc = "finished"
  /\ batch.source = CorpusTar
  /\ Len(batch.ply_files) = 2
  /\ Len(batch.formats) = 2
  /\ \A k \in 1..Len(batch.units) : batch.units[k].codecs_ok

Formats(b) == {b.formats[j] : j \in 1..Len(b.formats)}

\* The members of a tar content directly in directory d.
MembersIn(tar, d) == {m \in DOMAIN tar.files : m.dir = d}

\* The scene directories as the archive names them.
ArchivedScenes == {<<"corpus">> \o m.dir : m \in CorpusMembers}

-----------------------------------------------------------------------------
(* One (asset, format) unit of _process_scene on a scene directory that     *)
(* earlier runs may have left artifacts and a compression_stats.json in.    *)

SceneDir == <<"out", "corpus", "s1", "it4">>

ScenePly == Path(SceneDir, "point_cloud", "ply")

\* stats_file (line 148)
SceneStats == Path(SceneDir, "compression_stats", "json")

\* final_compressed_file and final_decompressed_file (lines 157-158)
SceneCompressed(fmt) == Path(SceneDir \o <<"compressed">>, "point_cloud", fmt)

SceneDecompressed(fmt) ==
  Path(SceneDir \o <<"decompressed">>, "point_cloud_" \o fmt, "ply")

\* generated_stats_path (lines 189-191)
SceneTransientStats(fmt) ==
  statistics_path(ScenePly, SceneDecompressed(fmt))

\* What earlier runs left: the formats whose compressed artifact exists (c),
\* those among them whose restored file exists too (d), and those whose
\* transient statistics file was written and never consolidated (t).
SceneLeftovers ==
  {[c |-> {}, d |-> {}, t |-> {}],
   [c |-> {"sog"}, d |-> {"sog"}, t |-> {}],
   [c |-> {"sog"}, d |-> {}, t |-> {}],
   [c |-> {"sog"}, d |-> {"sog"}, t |-> {"sog"}],
   [c |-> EligibleCompressionFormats, d |-> EligibleCompressionFormats, t |-> {}]}

\* The transient statistics file round_trip_compression wrote for format x.
TransientLeft(x) == json_dump([k \in {x} |-> CompressionStatistics(x, 1, 1, 1, 2)])

InitUnit ==
  /\ \E left \in SceneLeftovers :
       LET files == [p \in {ScenePly} \cup {SceneCompressed(x) : x \in left.c}
                                     \cup {SceneDecompressed(x) : x \in left.d}
                                     \cup {SceneTransientStats(x) : x \in left.t} |->
                       IF p = ScenePly THEN Blob("user", 1)
                       ELSE IF p.suffix = "json" THEN TransientLeft(CHOOSE x \in left.t : p = SceneTransientStats(x))
                       ELSE Blob("codec", 1)]
       IN \/ fs = files
          \/ \E c \in StatsContents : fs = write(files, SceneStats, c)
  /\ NoCall /\ NoProcs /\ NoBatch
  /\ pre = fs

\* One iteration of the loop at line 156 for ScenePly.
Unit ==
  /\ outcome = "none"
  /\ \E fmt \in EligibleCompressionFormats, ow \in BOOLEAN,
        tc \in BatchToolOutcomes, td \in BatchToolOutcomes :
       /\ tc.res # "ok" => td = tc
       /\ \E u \in {process_unit(fs, ScenePly, fmt, ow, tc, td)} :
            /\ u.result = "skipped" => tc.res = "ok" /\ td = tc
            /\ call' = [op |-> "unit", fmt |-> fmt, overwrite |-> ow,
                        tc |-> tc, td |-> td]
            /\ pre' = fs
            /\ fs' = u.fs
            /\ ext' = u.ext
            /\ outcome' = u.result
  /\ UNCHANGED <<pc, procs, serialized, batch>>

NextUnit == Unit

SpecUnit == InitUnit /\ [][NextUnit]_vars

UnitDone == outcome # "none"

\* The scene's compression_stats.json could not be parsed, or held something
\* that is no valid statistics dictionary, when the unit started.
PreSceneStatsCorrupt ==
  /\ exists(pre, SceneStats)
  /\ \/ pre[SceneStats].kind # "json"
     \/ \E k \in DOMAIN pre[SceneStats].obj :
          ~is_valid_entry(k, pre[SceneStats].obj[k])

SceneStatsPreserved ==
  exists(fs, SceneStats) /\ fs[SceneStats] = pre[SceneStats]

SceneStatsAllValid ==
  /\ exists(fs, SceneStats)
  /\ fs[SceneStats].kind = "json"
  /\ \A k \in DOMAIN fs[SceneStats].obj : is_valid_entry(k, fs[SceneStats].obj[k])

-----------------------------------------------------------------------------
(* Recorded times and ratio (round_trip_compression under Spec)            *)

\* The entry the successful call wrote for its format.
WrittenEntry == fs[AssetStatistics].obj[call.fmt]

\* C12: the compression time recorded by a successful round trip is the
\* wall-time of the compress step alone and the decompression time recorded
\* is the wall-time of the decompress step alone.
C12_TimesAreStepWallTimes ==
  outcome = "ok" =>
    /\ WrittenEntry.compression_time_seconds = call.tc.dur
    /\ WrittenEntry.decompression_time_seconds = call.td.dur

\* Compress took 2 time units and decompress 1; the entry records a
\* decompression time of 3.
C12_DecompressionTimeIncludesCompress ==
  /\ outcome = "ok"
  /\ call.tc.dur = 2
  /\ call.td.dur = 1
  /\ WrittenEntry.compression_time_seconds = 2
  /\ WrittenEntry.decompression_time_seconds = 3

-----------------------------------------------------------------------------
(* Staging and discovery (run_benchmark lines 45-69) on a file system in    *)
(* which an earlier run may have left a staging directory.                  *)

\* The output directories a run is given: a fresh one, one whose name is an
\* iteration name, and the directory the sources themselves lie in.
OutputDirs == {<<"out">>, <<"it7">>, <<"in">>}

\* The tree an earlier run left as output_dir/corpus.
StaleTree(output_dir) ==
  {Path(output_dir \o <<"corpus", "old", "it4">>, "point_cloud", "ply")}

StageFilters == {<<>>, <<"it4">>, <<"it7">>, <<"corpus">>, <<"it4", "it7">>}

InitStage ==
  /\ \E stale \in {{}} \cup {StaleTree(o) : o \in OutputDirs} :
       fs = [p \in {CorpusTar, OtherFile} \cup stale
                    \cup {Rebase(m, <<>>, AsDir(CorpusDir)) : m \in CorpusMembers} |->
               IF p = CorpusTar THEN Tar([m \in CorpusMembers |-> Blob("user", 1)])
               ELSE IF p \in stale THEN Blob("stale", 1)
               ELSE Blob("user", 1)]
  /\ NoCall /\ NoProcs /\ NoBatch
  /\ pre = fs

\* run_benchmark up to the filter (lines 45-69).
StageAndDiscover ==
  /\ outcome = "none"
  /\ \E source \in Sources, output_dir \in OutputDirs, overwrite \in BOOLEAN,
        iteration_filter \in StageFilters :
     \E st \in {setup_staging_dir(fs, source, output_dir, overwrite)} :
       LET missing == ~exists(fs, source) /\ ~is_dir(fs, AsDir(source))
           ran == ~missing /\ st.err = "ok"
       IN /\ call' = [op |-> "stage", source |-> source,
                      output_dir |-> output_dir, overwrite |-> overwrite,
                      iteration_filter |-> iteration_filter,
                      staging_dir |-> IF missing THEN <<>> ELSE st.staging_dir,
                      candidates |-> IF ran THEN discover(st.fs, st.staging_dir, <<>>)
                                     ELSE {},
                      ply_files |-> IF ran THEN discover(st.fs, st.staging_dir,
                                                         iteration_filter)
                                    ELSE {}]
          /\ outcome' = IF missing THEN "SourceMissing" ELSE st.err
          /\ fs' = IF missing THEN fs ELSE st.fs
  /\ pre' = fs
  /\ UNCHANGED <<pc, ext, procs, serialized, batch>>

NextStage == StageAndDiscover

SpecStage == InitStage /\ [][NextStage]_vars

Staged == outcome # "none" /\ call.op = "stage"

\* output_dir/<stem> for a tar file, output_dir/<name> for a directory.
ExpectedStagingDir ==
  call.output_dir
    \o <<IF call.source = CorpusTar THEN call.source.stem ELSE Last(AsDir(call.source))>>

\* The tree under directory d of file system f, as relative path -> content.
TreeAt(f, d) == [m \in {Rebase(p, d, <<>>) : p \in Under(f, d)} |-> f[Rebase(m, <<>>, d)]]

\* What the source held when the call started, as relative path -> content.
SourceTree ==
  IF call.source = CorpusTar THEN pre[CorpusTar].files
  ELSE TreeAt(pre, AsDir(call.source))

\* The staging state machine on a tar file or directory source.
StagingFollowsStateMachine ==
  /\ outcome = "ok"
  /\ call.staging_dir = ExpectedStagingDir
  /\ IF is_dir(pre, ExpectedStagingDir) /\ ~call.overwrite
       THEN TreeAt(fs, ExpectedStagingDir) = TreeAt(pre, ExpectedStagingDir)
       ELSE TreeAt(fs, ExpectedStagingDir) = SourceTree

\* C13: a tar file is staged into output_dir/<stem> and a directory into
\* output_dir/<name>; an existing staging directory is left as it is under
\* overwrite=false and is replaced by the source's content under
\* overwrite=true; a source of another kind raises UnsupportedSource and
\* nothing is created.
C13_StagingStateMachine ==
  Staged =>
    CASE call.source \in {CorpusTar, CorpusDir} -> StagingFollowsStateMachine
      [] call.source = OtherFile -> outcome = "UnsupportedSource" /\ fs = pre
      [] OTHER -> fs = pre

\* The directory source lay in output_dir, so it was its own staging
\* directory: overwrite=true deleted it and the copy found no source.
C13_SourceDeleted ==
  /\ Staged
  /\ call.source = CorpusDir
  /\ call.overwrite
  /\ ExpectedStagingDir = AsDir(CorpusDir)
  /\ outcome = "FileNotFoundError"
  /\ is_dir(pre, AsDir(CorpusDir))
  /\ ~is_dir(fs, AsDir(CorpusDir))

\* C13 for the runs whose staging directory is not the source directory
\* itself: there the staging state machine is followed.
C13_StagingStateMachineApart ==
  (Staged /\ ~(call.source = CorpusDir /\ ExpectedStagingDir = AsDir(CorpusDir)))
    => C13_StagingStateMachine

\* C14: the compression ratio a successful round trip stores is the
\* fraction of the raw byte size of the original over the raw byte size of
\* the compressed artifact, for every format.
C14_RatioFromRawByteSizes ==
  outcome = "ok" =>
    WrittenEntry.compression_ratio =
      <<pre[Asset].size, fs[compressed_path(Asset, call.fmt, None)].size>>

\* A successful call whose original, compressed and restored sizes tell the
\* candidates apart: original 2 bytes, compressed 1, restored 2.
C14_Witness ==
  /\ outcome = "ok"
  /\ pre[Asset].size = 2
  /\ fs[compressed_path(Asset, call.fmt, None)].size = 1
  /\ fs[decompressed_path(Asset, call.fmt, None)].size = 2
  /\ WrittenEntry.compression_ratio = <<2, 1>>

\* The asset's path relative to the staging directory.
RelativePath(p) == Rebase(p, call.staging_dir, <<>>)

KeptByFilter(p) ==
  \E i \in 1..Len(call.iteration_filter) : occurs_in(call.iteration_filter[i], p)

\* C15: with a filter given, the assets processed are the discovered assets
\* in whose path relative to the staging directory a filter string occurs.
C15_FilterOnRelativePath ==
  (Staged /\ outcome = "ok" /\ call.iteration_filter # <<>>) =>
    call.ply_files = {p \in call.candidates : KeptByFilter(RelativePath(p))}

\* The filter string occurs only in the output directory's name, and the
\* asset s1/it4/point_cloud.ply was selected all the same.
C15_SelectedByOutputDirName ==
  /\ Staged
  /\ outcome = "ok"
  /\ call.output_dir = <<"it7">>
  /\ call.iteration_filter = <<"it7">>
  /\ \E p \in call.ply_files :
       RelativePath(p).dir = <<"s1", "it4">> /\ ~KeptByFilter(RelativePath(p))

-----------------------------------------------------------------------------
(* The chunked codec's renames (compress_cply, decompress_cply under       *)
(* SpecCodec)                                                              *)

\* The running or finished call is op on format cply and its precondition
\* check has passed.
CplyPastCheck(op) ==
  /\ CodecCalled
  /\ call.op = op
  /\ call.fmt = "cply"
  /\ (pc >= 2 \/ outcome = "running")

\* C16: in compress_cply, once the precondition check has passed the final
\* output path does not exist until the tool has returned successfully and
\* the temporary file has been renamed; when the tool fails it does not
\* exist afterwards; and on any step of a compress_cply call on which the
\* output path comes into existence, that step is the final rename of
\* "<stem>.compressed.ply".
C16_CplyOutputOnlyByRename ==
  /\ [](CplyPastCheck("compress") =>
          /\ pc \in {1, 2} => ~exists(fs, call.output_file)
          /\ outcome = "CodecInvocationFailed" => ~exists(fs, call.output_file)
          /\ pc = 3 => outcome = "ok" /\ exists(fs, call.output_file))
  /\ [][(/\ call'.op = "compress" /\ call'.fmt = "cply"
          /\ ~exists(fs, call'.output_file)
          /\ exists(fs', call'.output_file))
         => /\ pc' = 3
            /\ call.t.res = "ok"
            /\ fs' = rename(fs, with_suffix_compressed_ply(call.output_file),
                            call.output_file)]_vars

\* A compress_cply call with overwrite=true on an existing output has
\* finished: the output is the tool's, and the temporary file is gone.
C16_Witness ==
  /\ CplyPastCheck("compress")
  /\ pc = 3
  /\ call.overwrite
  /\ exists(pre, call.output_file)
  /\ fs[call.output_file].by = "codec"
  /\ ~exists(fs, with_suffix_compressed_ply(call.output_file))

\* temp_input_file of the running decompress_cply call (line 129)
WorkingName == with_suffix_compressed_ply(call.input_file)

CodecReturned == CodecCalled /\ outcome # "running"

\* C17: in decompress_cply, once the check has passed, the artifact is under
\* its working name and not under its original name while the tool runs;
\* after the call it is under its original name if and only if the tool
\* succeeded; when the tool failed the call raised the tool's error and the
\* artifact is under the working name only.  Where the output path is not
\* the working name, the content under either name is the artifact's.
C17_CplyInputBackIffToolSucceeded ==
  CplyPastCheck("decompress") =>
    /\ (outcome = "running" /\ pc >= 2) =>
         ~exists(fs, call.input_file) /\ exists(fs, WorkingName)
    /\ CodecReturned =>
         /\ exists(fs, call.input_file) <=> call.t.res = "ok"
         /\ outcome = IF call.t.res = "ok" THEN "ok" ELSE "CodecInvocationFailed"
         /\ call.t.res # "ok" => exists(fs, WorkingName)
         /\ call.output_file # WorkingName =>
              IF call.t.res = "ok"
                THEN fs[call.input_file] = pre[call.input_file]
                     /\ ~exists(fs, WorkingName)
                ELSE fs[WorkingName] = pre[call.input_file]

\* The tool failed: the call raised, the artifact is under the working name
\* and its original name is gone.
C17_Witness ==
  /\ CplyPastCheck("decompress")
  /\ outcome = "CodecInvocationFailed"
  /\ call.t.res = "fail"
  /\ exists(pre, call.input_file)
  /\ ~exists(fs, call.input_file)
  /\ exists(fs, WorkingName)

-----------------------------------------------------------------------------
(* Consolidation and skipping (one unit of _process_scene under SpecUnit)  *)

PreSceneStatsObject ==
  exists(pre, SceneStats) /\ pre[SceneStats].kind = "json"

-----------------------------------------------------------------------------
(* Rejected codec operations (under SpecCodec)                             *)

Rejected ==
  /\ CodecCalled
  /\ outcome \in {"SameName", "FormatMismatch", "DestinationExists", "SourceMissing"}

\* C20: a codec operation rejected by a precondition check leaves the file
\* system as it was, for either value of overwrite.
C20_RejectedLeavesFsUnchanged == Rejected => fs = pre

\* With overwrite=true and the input missing, the operation raised
\* SourceMissing after deleting the output that existed.
C20_OutputDeletedBeforeSourceMissing ==
  /\ Rejected
  /\ outcome = "SourceMissing"
  /\ call.overwrite
  /\ exists(pre, call.output_file)
  /\ ~exists(fs, call.output_file)

\* C20 for the three earlier checks: a call rejected for equal names, an
\* extension or an existing destination leaves the file system as it was.
C20_EarlierChecksLeaveFsUnchanged ==
  (Rejected /\ outcome # "SourceMissing") => fs = pre

-----------------------------------------------------------------------------
(* Batch runs one after the other on the same source and output directory: *)
(* a run finds the staging directory, the artifacts and the statistics the *)
(* runs before it have kept.                                               *)

\* The corpus of these runs: one scene with one asset.
RunsTar == Path(<<"in">>, "scene", "tar")

RunsMembers == {Path(<<"s1", "it4">>, "point_cloud", "ply")}

InitRuns ==
  /\ fs = [p \in {RunsTar} |-> Tar([m \in RunsMembers |-> Blob("user", 1)])]
  /\ NoCall /\ NoProcs
  /\ batch = [pc |-> "idle", run |-> 0]
  /\ pre = fs

\* run_benchmark is called (again): lines 45-72.
StartRun ==
  /\ batch.pc \in {"idle", "finished"}
  /\ batch.run < MaxRuns
  /\ \E formats \in FormatLists, overwrite \in BOOLEAN :
     \E st \in {setup_staging_dir(fs, RunsTar, <<"out">>, overwrite)} :
       LET iteration_filter == <<"it4">>
           found == discover(st.fs, st.staging_dir, iteration_filter)
           b == [pc |-> "scenes", source |-> RunsTar, output_dir |-> <<"out">>,
                 formats |-> formats, overwrite |-> overwrite,
                 keep_extracted |-> FALSE,
                 iteration_filter |-> iteration_filter,
                 staging_dir |-> st.staging_dir, ply_files |-> <<>>,
                 i |-> 1, j |-> 1, units |-> <<>>, run |-> batch.run + 1]
       IN /\ fs' = st.fs
          /\ IF st.err # "ok" THEN batch' = [b EXCEPT !.pc = "raised"]
             ELSE \E ply_files \in Orders(found) :
                    batch' = [b EXCEPT !.ply_files = ply_files,
                                       !.pc = IF found = {} THEN "pack" ELSE "scenes"]
  /\ pre' = fs
  /\ UNCHANGED <<pc, call, outcome, ext, procs, serialized>>

NextRuns == StartRun \/ ProcessUnit \/ Pack

SpecRuns == InitRuns /\ [][NextRuns]_vars

RunFinished == batch.pc = "finished" /\ "run" \in DOMAIN batch

\* The scene directories of these runs as the archive names them.
RunsScenes == {<<"scene">> \o m.dir : m \in RunsMembers}

\* The content of the staging tree at the end of the run, which the final
\* archive holds whether the tree is kept or removed.
Archive == fs[FinalTarPath].files

HasArtifact(d, x) ==
  Path(d \o <<"compressed">>, "point_cloud", x) \in DOMAIN Archive

HasEntry(d, x) ==
  /\ Path(d, "compression_stats", "json") \in DOMAIN Archive
  /\ Archive[Path(d, "compression_stats", "json")].kind = "json"
  /\ x \in DOMAIN Archive[Path(d, "compression_stats", "json")].obj

====
